---- MODULE Spec2Model ----
(***************************************************************************)
(* Model of the 8-K Item 2.02 crawl-and-persist pipeline of                *)
(* edgar_8k_press_release.py: resume set, per-filer crawl, exhibit         *)
(* selection, download cache and index merge, over repeated runs.          *)
(*                                                                         *)
(* Python strings are modelled as sequences of one-character strings, so   *)
(* that the string operations of the code (lexical comparison, split,      *)
(* strip, lower, regular-expression search, zero stripping by the CSV      *)
(* reader) are computed and not assumed.                                   *)
(***************************************************************************)
EXTENDS Integers, Sequences, FiniteSets, TLC

VARIABLES run, pc, resume, window, skip_dupes, all_rows, fi, i, out_rows,
          exhibit_name, disk, csv, report, net, exc, unslept, dlAttempted,
          faults, csvReads, csvWrites,
          universe, df, upc, lookups,
          items_in, item_pos, item_hit

\* The crawl and the merge of main.
runVars == <<run, pc, resume, window, skip_dupes, all_rows, fi, i, out_rows,
             exhibit_name, disk, csv, report, net, exc, unslept, dlAttempted,
             faults, csvReads, csvWrites>>

\* The universe resolution of main (_load_universe, _ensure_cik).
universeVars == <<universe, df, upc, lookups>>

\* One evaluation of the item test of the selector.
itemVars == <<items_in, item_pos, item_hit>>

vars == <<runVars, universeVars, itemVars>>

\* Number of consecutive runs of main() that are explored.
MaxRuns == 2

-----------------------------------------------------------------------------
(* Strings *)

DigitChars == {"0", "1", "2", "3", "4", "5", "6", "7", "8", "9"}

LowerLetters == {"a", "b", "c", "d", "e", "f", "g", "h", "i", "j", "k", "l", "m",
                 "n", "o", "p", "q", "r", "s", "t", "u", "v", "w", "x", "y", "z"}

UpperLetters == {"A", "B", "C", "D", "E", "F", "G", "H", "I", "J", "K", "L", "M",
                 "N", "O", "P", "Q", "R", "S", "T", "U", "V", "W", "X", "Y", "Z"}

\* Characters in code-point order, for Python's str comparison.
AsciiOrder == <<" ", ",", "-", ".", "/", "0", "1", "2", "3", "4", "5", "6", "7",
                "8", "9", ":", "A", "B", "C", "D", "E", "F", "G", "H", "I", "J",
                "K", "L", "M", "N", "O", "P", "Q", "R", "S", "T", "U", "V", "W",
                "X", "Y", "Z", "_", "a", "b", "c", "d", "e", "f", "g", "h", "i",
                "j", "k", "l", "m", "n", "o", "p", "q", "r", "s", "t", "u", "v",
                "w", "x", "y", "z", "|">>

Ord(c) == CHOOSE k \in 1..Len(AsciiOrder) : AsciiOrder[k] = c

\* a < b for Python strings: first differing character decides, a proper
\* prefix is smaller.
RECURSIVE StrLess(_, _)
StrLess(a, b) ==
    IF b = <<>> THEN FALSE
    ELSE IF a = <<>> THEN TRUE
    ELSE IF Head(a) = Head(b) THEN StrLess(Tail(a), Tail(b))
    ELSE Ord(Head(a)) < Ord(Head(b))

\* str.lower() on one character and on a string.
LowerChar(c) ==
    IF c \in UpperLetters
    THEN AsciiOrder[Ord(c) + 27]
    ELSE c

Lower(s) == [k \in 1..Len(s) |-> LowerChar(s[k])]

\* regular-expression classes \w and \s
IsWord(c) == c \in DigitChars \cup LowerLetters \cup UpperLetters \cup {"_"}

IsSpace(c) == c = " "

\* pat occurs in s starting at position p
MatchAt(s, p, pat) ==
    /\ p >= 1
    /\ p + Len(pat) - 1 <= Len(s)
    /\ \A k \in 1..Len(pat) : s[p + k - 1] = pat[k]

\* Python's "pat in s"
Contains(s, pat) == \E p \in 1..(Len(s) + 1) : MatchAt(s, p, pat)

\* first position at or after p that does not hold a whitespace character
RECURSIVE SkipSpace(_, _)
SkipSpace(s, p) ==
    IF p <= Len(s) /\ IsSpace(s[p]) THEN SkipSpace(s, p + 1) ELSE p

\* re.search(head + r"\s*" + tail, s)
SearchSpaced(s, head, tail) ==
    \E p \in 1..Len(s) :
        /\ MatchAt(s, p, head)
        /\ MatchAt(s, SkipSpace(s, p + Len(head)), tail)

\* str.strip()
RECURSIVE LStrip(_)
LStrip(s) == IF s # <<>> /\ IsSpace(Head(s)) THEN LStrip(Tail(s)) ELSE s

RECURSIVE RStrip(_)
RStrip(s) ==
    IF s # <<>> /\ IsSpace(s[Len(s)]) THEN RStrip(SubSeq(s, 1, Len(s) - 1)) ELSE s

Strip(s) == RStrip(LStrip(s))

\* str.split(sep) for a one-character separator: the list of fields
RECURSIVE SplitAcc(_, _, _)
SplitAcc(s, sep, field) ==
    IF s = <<>> THEN <<field>>
    ELSE IF Head(s) = sep THEN <<field>> \o SplitAcc(Tail(s), sep, <<>>)
    ELSE SplitAcc(Tail(s), sep, Append(field, Head(s)))

Split(s, sep) == SplitAcc(s, sep, <<>>)

\* str.replace(ch, "")
RECURSIVE RemoveChar(_, _)
RemoveChar(s, ch) ==
    IF s = <<>> THEN <<>>
    ELSE IF Head(s) = ch THEN RemoveChar(Tail(s), ch)
    ELSE <<Head(s)>> \o RemoveChar(Tail(s), ch)

\* os.path.basename
RECURSIVE Basename(_)
Basename(s) ==
    IF \E k \in 1..Len(s) : s[k] = "/"
    THEN Basename(Tail(s))
    ELSE s

AllDigits(s) == s # <<>> /\ \A k \in 1..Len(s) : s[k] \in DigitChars

\* str(int(s)) for a string of decimal digits: leading zeros are dropped
RECURSIVE IntStr(_)
IntStr(s) ==
    IF Len(s) > 1 /\ Head(s) = "0" THEN IntStr(Tail(s)) ELSE s

-----------------------------------------------------------------------------
(* Inputs of a run: command-line arguments and the upstream services *)

CIK_A == <<"0", "0", "0", "0", "0", "0", "0", "0", "1", "2">>
CIK_B == <<"1", "0", "0", "0", "0", "0", "0", "0", "0", "2">>
CIK_C == <<"0", "0", "0", "0", "0", "0", "0", "3", "0", "0">>

\* --start and --end
StartDate == <<"2", "0", "2", "4", "-", "0", "1", "-", "0", "1">>
EndDate == <<"2", "0", "2", "4", "-", "1", "2", "-", "3", "1">>

Form8K == "8-K"

\* The "recent filings" bundle of the submissions endpoint, as parallel
\* arrays.  CIK_A: filings on both ends of the window, other forms, dates
\* outside the window, other item codes and an items array that is shorter
\* than the form array.  CIK_C: a primaryDocument array that is too short.
Submissions(cik) ==
    IF cik = CIK_A THEN
        [form |-> <<"8-K", "10-Q", "8-K", "8-K", "8-K", "8-K", "8-K">>,
         accessionNumber |-> <<<<"A", "-", "1">>, <<"A", "-", "2">>, <<"A", "-", "3">>, <<"A", "-", "4">>, <<"A", "-", "5">>, <<"A", "-", "6">>, <<"A", "-", "7">>>>,
         filingDate |-> <<<<"2", "0", "2", "4", "-", "0", "1", "-", "0", "1">>, <<"2", "0", "2", "4", "-", "0", "5", "-", "0", "1">>, <<"2", "0", "2", "3", "-", "1", "2", "-", "3", "1">>, <<"2", "0", "2", "4", "-", "0", "6", "-", "3", "0">>,
                          <<"2", "0", "2", "4", "-", "1", "2", "-", "3", "1">>, <<"2", "0", "2", "5", "-", "0", "1", "-", "0", "1">>, <<"2", "0", "2", "4", "-", "0", "7", "-", "0", "1">>>>,
         primaryDocument |-> <<<<"a", "1", ".", "h", "t", "m">>, <<"a", "2", ".", "h", "t", "m">>, <<"a", "3", ".", "h", "t", "m">>, <<"a", "4", ".", "h", "t", "m">>, <<"a", "5", ".", "h", "t", "m">>,
                               <<"a", "6", ".", "h", "t", "m">>, <<"a", "7", ".", "h", "t", "m">>>>,
         items |-> <<<<"2", ".", "0", "2", ",", "9", ".", "0", "1">>, <<>>, <<"2", ".", "0", "2">>, <<"1", ".", "0", "1", "|", "9", ".", "0", "1">>, <<"5", ".", "0", "2", "|", " ", "I", "t", "e", "m", " ", "2", ".", "0", "2">>,
                     <<"2", ".", "0", "2">>>>]
    ELSE IF cik = CIK_B THEN
        [form |-> <<"8-K", "8-K/A">>,
         accessionNumber |-> <<<<"B", "-", "1">>, <<"B", "-", "2">>>>,
         filingDate |-> <<<<"2", "0", "2", "4", "-", "0", "3", "-", "0", "1">>, <<"2", "0", "2", "4", "-", "0", "3", "-", "0", "2">>>>,
         primaryDocument |-> <<<<"d", "/", "b", "1", ".", "h", "t", "m">>, <<"b", "2", ".", "h", "t", "m">>>>,
         items |-> <<<<"2", ".", "0", "2", "|", "9", ".", "0", "1">>, <<"2", ".", "0", "2">>>>]
    ELSE
        [form |-> <<"8-K", "8-K">>,
         accessionNumber |-> <<<<"C", "-", "1">>, <<"C", "-", "2">>>>,
         filingDate |-> <<<<"2", "0", "2", "4", "-", "0", "2", "-", "0", "1">>, <<"2", "0", "2", "4", "-", "0", "2", "-", "0", "2">>>>,
         primaryDocument |-> <<<<"c", "1", ".", "h", "t", "m">>>>,
         items |-> <<<<"2", ".", "0", "2">>, <<"2", ".", "0", "2">>>>]

\* The directory listing (index.json) of a filing: its "directory"."item"
\* entries in listing order.
Manifest(accession) ==
    IF accession = <<"A", "-", "1">> THEN
        <<[name |-> <<"a", "1", ".", "h", "t", "m">>, type |-> <<"8", "-", "K">>],
          [name |-> <<"p", "r", "e", "s", "s", ".", "h", "t", "m">>, type |-> <<"E", "X", "H", "I", "B", "I", "T", " ", "9", "9">>],
          [name |-> <<"e", "x", "9", "9", "1", ".", "h", "t", "m">>, type |-> <<"E", "X", "-", "9", "9", ".", "1">>]>>
    ELSE IF accession = <<"B", "-", "1">> THEN
        <<[name |-> <<"b", "1", ".", "h", "t", "m">>, type |-> <<"8", "-", "K">>],
          [name |-> <<"B", "_", "E", "X", "-", "9", "9", ".", "h", "t", "m">>, type |-> <<>>]>>
    ELSE IF accession = <<"C", "-", "1">> THEN
        <<[name |-> <<"c", "1", ".", "h", "t", "m">>, type |-> <<"8", "-", "K">>],
          [name |-> <<"e", "x", "h", "i", "b", "i", "t", "9", "9", ".", "h", "t", "m">>, type |-> <<>>]>>
    ELSE
        <<[name |-> <<"m", "a", "i", "n", ".", "h", "t", "m">>, type |-> <<"8", "-", "K">>],
          [name |-> <<"R", "9", ".", "h", "t", "m">>, type |-> <<"X", "M", "L">>]>>

\* The windows of the resolved universe (the CIK column after batching).
Windows == {<<CIK_A>>, <<CIK_B, CIK_A>>, <<CIK_B, CIK_B>>, <<CIK_C, CIK_B>>,
            <<CIK_B, CIK_C>>}

\* Bodies the artifact endpoint may return (the empty body included).
Bodies == {<<>>, <<"v", "1">>}

-----------------------------------------------------------------------------
(* Pure functions of the crawler *)

\* An item test whose second pattern is case-sensitive.
ItemMatches_CaseSensitive(it) ==
    \/ \E p \in 1..Len(it) :
           /\ MatchAt(it, p, <<"2", ".", "0", "2">>)
           /\ (p = 1 \/ ~IsWord(it[p - 1]))
           /\ (p + 4 > Len(it) \/ ~IsWord(it[p + 4]))
    \/ SearchSpaced(it, <<"i", "t", "e", "m">>, <<"2", ".", "0", "2">>)

\* _find_item_202
ItemMatches(it) ==
    \/ \E p \in 1..Len(it) :
           /\ MatchAt(it, p, <<"2", ".", "0", "2">>)
           /\ (p = 1 \/ ~IsWord(it[p - 1]))
           /\ (p + 4 > Len(it) \/ ~IsWord(it[p + 4]))
    \/ SearchSpaced(Lower(it), <<"i", "t", "e", "m">>, <<"2", ".", "0", "2">>)

_find_item_202(items) == \E k \in 1..Len(items) : ItemMatches(items[k])

\* items = [s.strip() for s in items_str.split("|") if s.strip()]
ParseItems(items_str) ==
    LET fields == Split(items_str, "|")
    IN  SelectSeq([k \in 1..Len(fields) |-> Strip(fields[k])],
                  LAMBDA t : t # <<>>)

\* items_list[i] if i < len(items_list) else ""
ItemsAt(items_list, pos) ==
    IF pos <= Len(items_list) THEN items_list[pos] ELSE <<>>

\* re.search(r"ex-?99", name)
ExDash99(name) ==
    \/ Contains(name, <<"e", "x", "9", "9">>)
    \/ Contains(name, <<"e", "x", "-", "9", "9">>)

\* The two tests the exhibit loop applies to one manifest entry.
NameMatch(f) ==
    LET name == Lower(f.name)
    IN  \/ Contains(name, <<"e", "x", "9", "9">>)
        \/ Contains(name, <<"e", "x", "h", "i", "b", "i", "t", "9", "9">>)
        \/ ExDash99(name)

DescMatch(f) ==
    LET desc == Lower(f.type \o << " " >> \o f.name)
    IN  SearchSpaced(desc, <<"e", "x", "h", "i", "b", "i", "t">>, <<"9", "9">>)

\* An exhibit search in two passes: all names first, then all type+name
\* strings.
FindExhibit_TwoPass(files) ==
    LET byName == {k \in 1..Len(files) : NameMatch(files[k])}
        byDesc == {k \in 1..Len(files) : DescMatch(files[k])}
        first(ks) == CHOOSE k \in ks : \A m \in ks : k <= m
    IN  IF byName # {} THEN files[first(byName)].name
        ELSE IF byDesc # {} THEN files[first(byDesc)].name
        ELSE <<>>

\* The exhibit loop: the name of the first entry that passes either test,
\* the empty string (None) when the loop ends without a break.
RECURSIVE FindExhibit(_)
FindExhibit(files) ==
    IF files = <<>> THEN <<>>
    ELSE IF NameMatch(Head(files)) THEN Head(files).name
    ELSE IF DescMatch(Head(files)) THEN Head(files).name
    ELSE FindExhibit(Tail(files))

\* key = f"{cik}:{accession}"
DupeKey(cik, accession) == cik \o <<":">> \o accession

\* base = ".../Archives/edgar/data/{int(cik)}/{acc_nodashes}"; a URL is the
\* tuple of its variable path components.
BaseUrl(cik, accession) == <<IntStr(cik), RemoveChar(accession, "-")>>

FileUrl(cik, accession, fname) == Append(BaseUrl(cik, accession), fname)

\* os.path.join(out_dir, cik, acc_nodashes, basename(fname)), as the tuple of
\* the components below out_dir.
LocalPath(cik, accession, fname) ==
    <<cik, RemoveChar(accession, "-"), Basename(fname)>>

-----------------------------------------------------------------------------
(* The index file and the artifact tree *)

\* pd.read_csv of the index file: a column whose every value is a decimal
\* number is parsed as integers, so its values lose their leading zeros
\* (astype(str) and to_csv then give the digits of the integer); any other
\* column keeps its text.
ReadColumn(col) ==
    IF \A k \in 1..Len(col) : AllDigits(col[k])
    THEN [k \in 1..Len(col) |-> IntStr(col[k])]
    ELSE col

ReadCsv(rows) ==
    LET ciks == ReadColumn([k \in 1..Len(rows) |-> rows[k].cik])
        accs == ReadColumn([k \in 1..Len(rows) |-> rows[k].accession])
    IN  [k \in 1..Len(rows) |->
            [rows[k] EXCEPT !.cik = ciks[k], !.accession = accs[k]]]

\* full["cik"].astype(str) + ":" + full["accession"].astype(str)
RowKey(r) == DupeKey(r.cik, r.accession)

\* DataFrame.drop_duplicates("dupe_key"): the first row of every key is kept.
RECURSIVE DropDuplicates(_, _)
DropDuplicates(rows, seen) ==
    IF rows = <<>> THEN <<>>
    ELSE IF RowKey(Head(rows)) \in seen THEN DropDuplicates(Tail(rows), seen)
    ELSE <<Head(rows)>> \o DropDuplicates(Tail(rows), seen \cup {RowKey(Head(rows))})

\* pd.concat([base, new_df]) of main, base being the index file if it exists.
FullFrame(file, new_rows) ==
    (IF file.exists THEN ReadCsv(file.rows) ELSE <<>>) \o new_rows

\* A merge that writes the frame even when it is empty.
MergedIndex_AlwaysWrites(file, new_rows) ==
    [exists |-> TRUE, rows |-> DropDuplicates(FullFrame(file, new_rows), {})]

\* The "Write / append" block of main: the index file after the merge.
MergedIndex(file, new_rows) ==
    LET full == FullFrame(file, new_rows)
    IN  IF full # <<>>
        THEN [exists |-> TRUE, rows |-> DropDuplicates(full, {})]
        ELSE file

\* The "Resume set" block of main.
ResumeSet(use_resume, file) ==
    IF use_resume /\ file.exists /\ file.rows # <<>>
    THEN {RowKey(ReadCsv(file.rows)[k]) : k \in 1..Len(file.rows)}
    ELSE {}

\* A cache whose "already there" test never succeeds.
Present_Never(d, path) == FALSE

\* os.path.exists(p) and os.path.getsize(p) > 0
Present(d, path) == path \in DOMAIN d /\ d[path] # <<>>

\* open(out_path, "wb").write(body)
WriteFile(d, path, body) ==
    [q \in DOMAIN d \cup {path} |-> IF q = path THEN body ELSE d[q]]

\* Outcomes of one HTTP request.
NetOutcomes == {"ok", "http_error", "conn_error"}

-----------------------------------------------------------------------------
(* The run *)

cik == window[fi]

recent == Submissions(cik)

NoFile == [exists |-> FALSE, rows |-> <<>>]

\* The state of the crawl before the first run: no index file, an empty
\* artifact tree, a window out of windows.
RunInit(windows) ==
    /\ run = 1
    /\ pc = "resume"
    /\ resume = FALSE
    /\ window \in windows
    /\ skip_dupes = {}
    /\ all_rows = <<>>
    /\ fi = 1
    /\ i = 1
    /\ out_rows = <<>>
    /\ exhibit_name = <<>>
    /\ disk = [path \in {} |-> <<>>]
    /\ csv = NoFile
    /\ report = "none"
    /\ net = "none"
    /\ exc = "none"
    /\ unslept = FALSE
    /\ dlAttempted = FALSE
    /\ faults = FALSE
    /\ csvReads = 0
    /\ csvWrites = 0

\* The universe resolution and the item test are not running.
UniverseIdle ==
    /\ universe = [has_ticker |-> FALSE, has_cik |-> FALSE, rows |-> <<>>]
    /\ df = <<>>
    /\ upc = "idle"
    /\ lookups = 0

ItemIdle ==
    /\ items_in = <<>>
    /\ item_pos = 1
    /\ item_hit = "idle"

Init == RunInit(Windows) /\ UniverseIdle /\ ItemIdle

\* Line 201: the file --resume_from names is read when it is given and exists.
ReadsResumeFile(use_resume, file) == use_resume /\ file.exists

\* main, lines 199-206: the skip set is built from --resume_from, which is
\* either absent or the path of the index file.
LoadResumeSet ==
    /\ pc = "resume"
    /\ \E use_resume \in BOOLEAN :
           /\ resume' = use_resume
           /\ skip_dupes' = ResumeSet(use_resume, csv)
    /\ all_rows' = <<>>
    /\ fi' = 1
    /\ pc' = IF window = <<>> THEN "merge" ELSE "crawl"
    /\ net' = "none"
    /\ exc' = "none"
    /\ csvReads' = csvReads + (IF ReadsResumeFile(resume', csv) THEN 1 ELSE 0)
    /\ UNCHANGED <<universeVars, itemVars, csvWrites>>
    /\ UNCHANGED <<run, window, i, out_rows, exhibit_name, disk, csv, report,
                   unslept, dlAttempted, faults>>

\* The loop of main moves on to the next filer, or to the merge.
NextFiler ==
    /\ fi' = fi + 1
    /\ pc' = IF fi < Len(window) THEN "crawl" ELSE "merge"
    /\ i' = 1
    /\ out_rows' = <<>>
    /\ exhibit_name' = <<>>

\* An exception handler around the whole loop instead of one iteration: the
\* first exception ends the loop.
Raise_EndsLoop(e) ==
    /\ exc' = e
    /\ faults' = TRUE
    /\ all_rows' = all_rows
    /\ fi' = fi + 1
    /\ pc' = "merge"
    /\ i' = 1
    /\ out_rows' = <<>>
    /\ exhibit_name' = <<>>

\* An exception leaves crawl_8k_item202_for_cik: its frame (out_rows) is
\* dropped and "except Exception" of main continues with the next filer.
Raise(e) ==
    /\ exc' = e
    /\ faults' = TRUE
    /\ all_rows' = all_rows
    /\ NextFiler

\* crawl_8k_item202_for_cik, lines 98-106: the submissions request.
FetchSubmissions ==
    /\ pc = "crawl"
    /\ \E outcome \in NetOutcomes :
           /\ net' = outcome
           /\ IF outcome = "ok"
              THEN /\ pc' = "select"
                   /\ i' = 1
                   /\ out_rows' = <<>>
                   /\ exc' = "none"
                   /\ UNCHANGED <<fi, all_rows, exhibit_name, faults>>
              ELSE Raise(IF outcome = "http_error" THEN "HTTPError"
                                                   ELSE "ConnectionError")
    /\ unslept' = TRUE
    /\ UNCHANGED <<universeVars, itemVars>>
    /\ UNCHANGED <<run, csvReads, csvWrites, resume, window, skip_dupes, disk, csv, report, dlAttempted>>

\* A date test that excludes both ends of the window.
OutsideWindow_Exclusive(fdate, start, end) ==
    ~StrLess(start, fdate) \/ ~StrLess(fdate, end)

\* fdate < start or fdate > end
OutsideWindow(fdate, start, end) == StrLess(fdate, start) \/ StrLess(end, fdate)

\* A selector that does not consult the skip set.
AlreadyRecorded_Never(key, skip) == FALSE

\* key in skip_dupes
AlreadyRecorded(key, skip) == key \in skip

\* The tests of lines 108-120 on position pos: "skip" (continue), "raise"
\* (an index past the end of a parallel array) or "take".
Selection(rec, pos, skip) ==
    IF rec.form[pos] # Form8K THEN "skip"
    ELSE IF pos > Len(rec.filingDate) THEN "raise"
    ELSE IF OutsideWindow(rec.filingDate[pos], StartDate, EndDate) THEN "skip"
    ELSE IF ~_find_item_202(ParseItems(ItemsAt(rec.items, pos))) THEN "skip"
    ELSE IF pos > Len(rec.accessionNumber) THEN "raise"
    ELSE IF AlreadyRecorded(DupeKey(cik, rec.accessionNumber[pos]), skip) THEN "skip"
    ELSE IF pos > Len(rec.primaryDocument) THEN "raise"
    ELSE "take"

\* One iteration of the filing loop up to the manifest request.
SelectFiling ==
    /\ pc = "select"
    /\ i <= Len(recent.form)
    /\ LET verdict == Selection(recent, i, skip_dupes)
       IN  CASE verdict = "skip" ->
                    /\ i' = i + 1
                    /\ exc' = "none"
                    /\ UNCHANGED <<pc, fi, all_rows, out_rows, exhibit_name, faults>>
              [] verdict = "raise" -> Raise("IndexError")
              [] verdict = "take" ->
                    /\ pc' = "list"
                    /\ exc' = "none"
                    /\ UNCHANGED <<i, fi, all_rows, out_rows, exhibit_name, faults>>
    /\ net' = "none"
    /\ UNCHANGED <<universeVars, itemVars>>
    /\ UNCHANGED <<run, csvReads, csvWrites, resume, window, skip_dupes, disk, csv, report, unslept,
                   dlAttempted>>

\* A crawl that saves the index after every filer.
ReturnRows_SavesIndex ==
    /\ pc = "select"
    /\ i > Len(recent.form)
    /\ all_rows' = all_rows \o out_rows
    /\ csv' = MergedIndex(csv, all_rows')
    /\ NextFiler
    /\ net' = "none"
    /\ exc' = "none"
    /\ UNCHANGED <<universeVars, itemVars>>
    /\ UNCHANGED <<run, csvReads, csvWrites, resume, window, skip_dupes, disk,
                   report, unslept, dlAttempted, faults>>

\* return out_rows; all_rows.extend(rows)
ReturnRows ==
    /\ pc = "select"
    /\ i > Len(recent.form)
    /\ all_rows' = all_rows \o out_rows
    /\ NextFiler
    /\ net' = "none"
    /\ exc' = "none"
    /\ UNCHANGED <<universeVars, itemVars>>
    /\ UNCHANGED <<run, csvReads, csvWrites, resume, window, skip_dupes, disk, csv, report, unslept,
                   dlAttempted, faults>>


\* The filing the loop is at, once it passed the selection.
accession == recent.accessionNumber[i]

primary == recent.primaryDocument[i]

\* Lines 126-146: the manifest request and the exhibit loop.  A status other
\* than 200 skips the filing after the delay; an error of the transport
\* raises.
ListManifest ==
    /\ pc = "list"
    /\ \E outcome \in NetOutcomes :
           /\ net' = outcome
           /\ CASE outcome = "ok" ->
                       /\ exhibit_name' = FindExhibit(Manifest(accession))
                       /\ pc' = "dl_main"
                       /\ exc' = "none"
                       /\ unslept' = TRUE
                       /\ UNCHANGED <<i, fi, all_rows, out_rows, faults>>
                [] outcome = "http_error" ->
                       /\ i' = i + 1
                       /\ pc' = "select"
                       /\ exc' = "none"
                       /\ unslept' = FALSE
                       /\ faults' = TRUE
                       /\ UNCHANGED <<fi, all_rows, out_rows, exhibit_name>>
                [] outcome = "conn_error" ->
                       /\ Raise("ConnectionError")
                       /\ unslept' = TRUE
    /\ UNCHANGED <<universeVars, itemVars>>
    /\ UNCHANGED <<run, csvReads, csvWrites, resume, window, skip_dupes, disk, csv, report, dlAttempted>>

\* _download(url, out_path) answered by the endpoint with outcome and body:
\* whether it raises, the request it issues and the artifact tree it leaves.
\* (DownloadRaises_Never swallows every failure; DownloadWrites_OpensFirst
\* opens the file before the request is answered.)
DownloadRaises_Never(d, path, outcome) == FALSE

DownloadRaises(d, path, outcome) == ~Present(d, path) /\ outcome # "ok"

DownloadRequest(d, path, outcome) == IF Present(d, path) THEN "none" ELSE outcome

DownloadWrites_OpensFirst(d, path, outcome, body) ==
    IF Present(d, path) THEN d
    ELSE WriteFile(d, path, IF outcome = "ok" THEN body ELSE <<>>)

DownloadWrites(d, path, outcome, body) ==
    IF ~Present(d, path) /\ outcome = "ok" THEN WriteFile(d, path, body) ELSE d

ExcOf(outcome) == IF outcome = "http_error" THEN "HTTPError" ELSE "ConnectionError"

main_local == LocalPath(cik, accession, primary)

\* Lines 148-151: the primary document; a failure is not caught here.
DownloadPrimary ==
    /\ pc = "dl_main"
    /\ \E outcome \in NetOutcomes, body \in Bodies :
           /\ net' = DownloadRequest(disk, main_local, outcome)
           /\ disk' = DownloadWrites(disk, main_local, outcome, body)
           /\ IF DownloadRaises(disk, main_local, outcome)
              THEN /\ Raise(ExcOf(outcome))
                   /\ unslept' = TRUE
              ELSE /\ pc' = "dl_exhibit"
                   /\ exc' = "none"
                   /\ unslept' = FALSE
                   /\ UNCHANGED <<i, fi, all_rows, out_rows, exhibit_name, faults>>
    /\ dlAttempted' = TRUE
    /\ UNCHANGED <<universeVars, itemVars>>
    /\ UNCHANGED <<run, csvReads, csvWrites, resume, window, skip_dupes, csv, report>>

\* exhibit_url and exhibit_local as line 146 and lines 152-154 set them.
ExhibitUrl(c, acc, exname) ==
    IF exname # <<>> THEN FileUrl(c, acc, exname) ELSE <<>>

ExhibitLocal(c, acc, exname) ==
    IF ExhibitUrl(c, acc, exname) # <<>> THEN LocalPath(c, acc, exname) ELSE <<>>

\* The row of lines 160-168.
NewRow(c, rec, pos, exname) ==
    [cik |-> c,
     accession |-> rec.accessionNumber[pos],
     filing_date |-> rec.filingDate[pos],
     doc_url |-> FileUrl(c, rec.accessionNumber[pos], rec.primaryDocument[pos]),
     exhibit99_url |-> ExhibitUrl(c, rec.accessionNumber[pos], exname),
     main_local |-> LocalPath(c, rec.accessionNumber[pos], rec.primaryDocument[pos]),
     exhibit99_local |-> ExhibitLocal(c, rec.accessionNumber[pos], exname)]

\* Lines 152-169: the exhibit download inside try/except, the row, the delay.
DownloadExhibitAndRecord ==
    /\ pc = "dl_exhibit"
    /\ LET exhibit_local == ExhibitLocal(cik, accession, exhibit_name)
       IN  IF exhibit_local # <<>>
           THEN \E outcome \in NetOutcomes, body \in Bodies :
                    /\ net' = DownloadRequest(disk, exhibit_local, outcome)
                    /\ disk' = DownloadWrites(disk, exhibit_local, outcome, body)
                    /\ faults' = (faults \/ DownloadRaises(disk, exhibit_local, outcome))
                    /\ dlAttempted' = TRUE
           ELSE /\ net' = "none"
                /\ UNCHANGED <<disk, faults, dlAttempted>>
    /\ out_rows' = Append(out_rows, NewRow(cik, recent, i, exhibit_name))
    /\ unslept' = FALSE
    /\ i' = i + 1
    /\ pc' = "select"
    /\ exc' = "none"
    /\ UNCHANGED <<universeVars, itemVars>>
    /\ UNCHANGED <<run, csvReads, csvWrites, resume, window, skip_dupes, all_rows, fi, exhibit_name,
                   csv, report>>

\* main, lines 216-231: merge the collected rows into the index file.
Merge ==
    /\ pc = "merge"
    /\ csv' = MergedIndex(csv, all_rows)
    /\ report' = IF FullFrame(csv, all_rows) # <<>> THEN "saved" ELSE "no_results"
    /\ csvReads' = csvReads + (IF csv.exists THEN 1 ELSE 0)
    /\ csvWrites' = csvWrites + (IF FullFrame(csv, all_rows) # <<>> THEN 1 ELSE 0)
    /\ pc' = "done"
    /\ net' = "none"
    /\ exc' = "none"
    /\ UNCHANGED <<universeVars, itemVars>>
    /\ UNCHANGED <<run, resume, window, skip_dupes, all_rows, fi, i, out_rows,
                   exhibit_name, disk, unslept, dlAttempted, faults>>

\* The program is started again on the same universe, window and dates.
NextRun ==
    /\ pc = "done"
    /\ run < MaxRuns
    /\ run' = run + 1
    /\ pc' = "resume"
    /\ resume' = FALSE
    /\ skip_dupes' = {}
    /\ all_rows' = <<>>
    /\ fi' = 1
    /\ report' = "none"
    /\ net' = "none"
    /\ exc' = "none"
    /\ unslept' = FALSE
    /\ dlAttempted' = FALSE
    /\ csvReads' = 0
    /\ csvWrites' = 0
    /\ UNCHANGED <<universeVars, itemVars>>
    /\ UNCHANGED <<window, i, out_rows, exhibit_name, disk, csv, faults>>

Next ==
    \/ LoadResumeSet
    \/ FetchSubmissions
    \/ SelectFiling
    \/ ReturnRows
    \/ ListManifest
    \/ DownloadPrimary
    \/ DownloadExhibitAndRecord
    \/ Merge
    \/ NextRun

Spec == Init /\ [][Next]_vars

TypeOK ==
    /\ run \in 1..MaxRuns
    /\ pc \in {"resume", "crawl", "select", "list", "dl_main", "dl_exhibit",
               "merge", "done"}
    /\ window \in Windows
    /\ net \in NetOutcomes \cup {"none"}
    /\ exc \in {"none", "HTTPError", "ConnectionError", "IndexError"}

-----------------------------------------------------------------------------
(* Universe resolution: _load_universe and _ensure_cik *)

\* Largest number of rows of the universe file.
MaxRows == 2

\* zfill() pads to this width.
CikWidth == 10

\* The cells of the ticker column and of the filer-ID column of the
\* universe file; the empty string is an empty cell.
TickerCells == {<<>>, <<"a", "b", "c">>, <<" ", "X", "Y", "Z">>}

CikCells == {<<>>, <<"1", "2", "3", "4", "5">>, <<"0", "0", "0", "0", "0", "1", "2", "3", "4", "5">>, <<"c", "i", "k", "-", "1", "2", "3", "4", "5">>, <<"1", "2", "3", "4", "5", "6", "7", "8", "9", "0", "1">>}

RECURSIVE TablesUpTo(_)
TablesUpTo(n) ==
    IF n = 0 THEN {<<>>}
    ELSE LET shorter == TablesUpTo(n - 1)
         IN  shorter \cup
             {Append(t, [ticker |-> tc, cik |-> cc]) :
                  t \in {u \in shorter : Len(u) = n - 1},
                  tc \in TickerCells, cc \in CikCells}

\* The universe files with at least one row, and whether --ticker_col and
\* --cik_col name a column of the file.
Universes ==
    {[has_ticker |-> ht, has_cik |-> hc, rows |-> t] :
         ht \in BOOLEAN, hc \in BOOLEAN, t \in TablesUpTo(MaxRows) \ {<<>>}}

\* company_tickers.json: ticker -> str(cik_str).
LookupTickers == {<<"A", "B", "C">>, <<"X", "Y", "Z">>}

LookupCikStr(t) == IF t = <<"A", "B", "C">> THEN <<"1", "2", "3", "4", "5">> ELSE <<"7", "7", "7">>

\* str.upper()
UpperChar(c) ==
    IF c \in LowerLetters
    THEN AsciiOrder[Ord(c) - 27]
    ELSE c

Upper(s) == [k \in 1..Len(s) |-> UpperChar(s[k])]

\* df[col].astype(str) for a column read by pd.read_csv: a column of whole
\* numbers is an integer column; whole numbers and empty cells make a float
\* column ("12345.0", "nan"); any other column holds the text of its cells,
\* "nan" for an empty cell.
ColumnAsStr(cells) ==
    IF \A k \in 1..Len(cells) : AllDigits(cells[k])
    THEN [k \in 1..Len(cells) |-> IntStr(cells[k])]
    ELSE IF \A k \in 1..Len(cells) : cells[k] = <<>> \/ AllDigits(cells[k])
    THEN [k \in 1..Len(cells) |->
              IF cells[k] = <<>> THEN <<"n", "a", "n">> ELSE IntStr(cells[k]) \o <<".", "0">>]
    ELSE [k \in 1..Len(cells) |-> IF cells[k] = <<>> THEN <<"n", "a", "n">> ELSE cells[k]]

\* re.sub(r"\D", "", s)
DigitsOf(s) == SelectSeq(s, LAMBDA c : c \in DigitChars)

\* str.zfill(width)
RECURSIVE Zfill(_, _)
Zfill(s, width) == IF Len(s) >= width THEN s ELSE Zfill(<<"0">> \o s, width)

\* A normalizer that strips the non-digits and does not pad.
_norm_cik_NoPad(c) == DigitsOf(c)

\* _norm_cik
_norm_cik(c) ==
    IF DigitsOf(c) # <<>> THEN Zfill(DigitsOf(c), CikWidth) ELSE <<>>

\* DataFrame.drop_duplicates() on whole rows: the first of equal rows is kept.
RECURSIVE DropDuplicateRows(_, _)
DropDuplicateRows(rows, seen) ==
    IF rows = <<>> THEN <<>>
    ELSE IF Head(rows) \in seen THEN DropDuplicateRows(Tail(rows), seen)
    ELSE <<Head(rows)>> \o DropDuplicateRows(Tail(rows), seen \cup {Head(rows)})

\* The strings _norm_cik is applied to (line 44).
CikStrings(u) == ColumnAsStr([k \in 1..Len(u.rows) |-> u.rows[k].cik])

\* _load_universe
_load_universe(u) ==
    LET tickers == ColumnAsStr([k \in 1..Len(u.rows) |-> u.rows[k].ticker])
        ciks == CikStrings(u)
        frame == [k \in 1..Len(u.rows) |->
                     [TICKER |-> IF u.has_ticker THEN Upper(Strip(tickers[k])) ELSE <<>>,
                      CIK |-> IF u.has_cik THEN _norm_cik(ciks[k]) ELSE <<>>]]
        kept == SelectSeq(frame, LAMBDA r : r.CIK # <<>> \/ r.TICKER # <<>>)
    IN  DropDuplicateRows(kept, {})

\* _ticker_to_cik_map
_ticker_to_cik_map(t) ==
    IF t \in LookupTickers THEN Zfill(LookupCikStr(t), CikWidth) ELSE <<>>

\* A resolver that fetches the mapping whatever the frame holds.
NeedsLookup_Always(frame) == TRUE

\* need.any()
NeedsLookup(frame) == \E k \in 1..Len(frame) : frame[k].CIK = <<>>

\* The loop of _ensure_cik and its return value.
Resolved(frame) ==
    LET filled == [k \in 1..Len(frame) |->
                      IF frame[k].CIK = <<>>
                      THEN [frame[k] EXCEPT !.CIK = _ticker_to_cik_map(Upper(frame[k].TICKER))]
                      ELSE frame[k]]
    IN  SelectSeq(filled, LAMBDA r : r.CIK # <<>>)

ResolveInit ==
    /\ RunInit({<<CIK_A>>})
    /\ ItemIdle
    /\ universe \in Universes
    /\ df = <<>>
    /\ upc = "load"
    /\ lookups = 0

\* main, line 187.
LoadUniverse ==
    /\ upc = "load"
    /\ df' = _load_universe(universe)
    /\ upc' = "ensure"
    /\ UNCHANGED <<universe, lookups, runVars, itemVars>>

\* main, line 188: the mapping is requested when a row lacks its CIK; a
\* failure of that request is not caught anywhere.
EnsureCik ==
    /\ upc = "ensure"
    /\ IF NeedsLookup(df)
       THEN \E outcome \in NetOutcomes :
                /\ lookups' = lookups + 1
                /\ IF outcome = "ok"
                   THEN df' = Resolved(df) /\ upc' = "check"
                   ELSE df' = df /\ upc' = "crashed"
       ELSE /\ df' = Resolved(df)
            /\ upc' = "check"
            /\ lookups' = lookups
    /\ UNCHANGED <<universe, runVars, itemVars>>

\* main, lines 189-191.
CheckUniverse ==
    /\ upc = "check"
    /\ upc' = IF df = <<>> THEN "exit" ELSE "resolved"
    /\ UNCHANGED <<universe, df, lookups, runVars, itemVars>>

ResolveNext ==
    \/ LoadUniverse
    \/ EnsureCik
    \/ CheckUniverse

ResolveSpec == ResolveInit /\ [][ResolveNext]_vars

-----------------------------------------------------------------------------
(* The item test of the selector on its own *)

\* Largest number of pipe-separated codes in an item field.
MaxCodes == 2

\* Codes an item field is made of.
ItemCodes == {<<"2", ".", "0", "2">>, <<"2", ".", "0", "2", ",", "9", ".", "0", "1">>, <<"I", "t", "e", "m", " ", "2", ".", "0", "2", " ", "-", " ", "R", "e", "s", "u", "l", "t", "s">>, <<"1", ".", "0", "1">>, <<"9", ".", "0", "1">>,
              <<"I", "T", "E", "M", "2", ".", "0", "2">>, <<"1", "2", ".", "0", "2">>, <<"2", ".", "0", "2", "1">>, <<" ", "2", ".", "0", "2", " ">>, <<"i", "t", "e", "m", " ", " ", "2", ".", "0", "2", "1">>}

RECURSIVE FieldsUpTo(_)
FieldsUpTo(n) ==
    IF n = 0 THEN {<<>>}
    ELSE FieldsUpTo(n - 1) \cup
         {c \o <<"|">> \o f : c \in ItemCodes, f \in FieldsUpTo(n - 1) \ {<<>>}} \cup
         ItemCodes

ItemsInit ==
    /\ RunInit({<<CIK_A>>})
    /\ UniverseIdle
    /\ items_in \in {<<f>> : f \in FieldsUpTo(MaxCodes)}
    /\ item_pos \in 1..2
    /\ item_hit = "unset"

\* Lines 113-116 for one position of the filing history.
EvaluateItems ==
    /\ item_hit = "unset"
    /\ item_hit' = IF _find_item_202(ParseItems(ItemsAt(items_in, item_pos)))
                   THEN "yes" ELSE "no"
    /\ UNCHANGED <<items_in, item_pos, runVars, universeVars>>

ItemsNext == EvaluateItems

ItemsSpec == ItemsInit /\ [][ItemsNext]_vars

-----------------------------------------------------------------------------
(* Properties *)

IsPrefix(a, b) == Len(a) <= Len(b) /\ SubSeq(b, 1, Len(a)) = a

RequestFailed(outcome) == outcome \in {"http_error", "conn_error"}

\* C1: a second run that resumes from the index file the first run wrote,
\* with nothing having failed, attempts no download, collects no row and
\* leaves the row count of the index file as it was.
C1_ResumeRerunAddsNothing ==
    (pc = "merge" /\ run = 2 /\ resume /\ csv.exists /\ ~faults)
        => /\ ~dlAttempted
           /\ all_rows = <<>>
           /\ Len(MergedIndex(csv, all_rows).rows) = Len(csv.rows)

\* C2: after the merge of a run, no two rows of the index file have the same
\* dedupe key when the file is read.
C2_NoDuplicateKeys ==
    (pc = "done" /\ csv.exists)
        => LET rows == ReadCsv(csv.rows)
           IN  \A j, k \in 1..Len(rows) : j < k => RowKey(rows[j]) # RowKey(rows[k])

\* C3: a failed download of a primary document ends that filing only: the
\* rows the filer has collected so far are kept and the loop goes on with
\* the filer's next filing.
C3_PrimaryFailureAbortsOnlyFiling ==
    [][(pc = "dl_main" /\ RequestFailed(net'))
          => /\ out_rows' = out_rows
             /\ all_rows' = all_rows
             /\ fi' = fi
             /\ i' = i + 1
             /\ pc' = "select"]_vars

\* The position of the run inside the filer loop, ordered lexicographically:
\* filer, filing, step of the filing.
StepRank(p) ==
    CASE p = "crawl" -> 0
      [] p = "select" -> 1
      [] p = "list" -> 2
      [] p = "dl_main" -> 3
      [] p = "dl_exhibit" -> 4
      [] OTHER -> 5

LoopAdvances(f1, i1, p1, f2, i2, p2) ==
    \/ f1 < f2
    \/ f1 = f2 /\ i1 < i2
    \/ f1 = f2 /\ i1 = i2 /\ StepRank(p1) < StepRank(p2)

InFilerLoop == pc \in {"crawl", "select", "list", "dl_main", "dl_exhibit"}

\* C4: when the processing of a filer raises, the rows of the filers before
\* it stay in the aggregate and the run goes on with the next filer of the
\* window, or with the merge after the last one.  The aggregate never loses
\* a row before the merge, the merge is entered only past the last filer,
\* and the run heads for it: every step inside the filer loop advances the
\* position (filer, filing, step), which is bounded by the window, and
\* leaves the loop only to the merge.
C4_PerFilerIsolation ==
    [][/\ (exc' # "none")
              => /\ all_rows' = all_rows
                 /\ run' = run
                 /\ fi' = fi + 1
                 /\ pc' = IF fi < Len(window) THEN "crawl" ELSE "merge"
       /\ InFilerLoop
              => /\ IsPrefix(all_rows, all_rows')
                 /\ fi <= Len(window)
                 /\ LoopAdvances(fi, i, pc, fi', i', pc')
                 /\ pc' \in {"crawl", "select", "list", "dl_main", "dl_exhibit", "merge"}
       /\ (pc # "merge" /\ pc' = "merge") => fi' = Len(window) + 1]_vars

C4_Witness ==
    /\ pc = "merge"
    /\ exc # "none"
    /\ all_rows # <<>>

\* C5: when the download of the exhibit fails, the row is still appended and
\* its exhibit99_local is empty.
C5_FailedExhibitRowHasNoLocalPath ==
    [][(pc = "dl_exhibit" /\ RequestFailed(net'))
          => /\ Len(out_rows') = Len(out_rows) + 1
             /\ out_rows'[Len(out_rows')].exhibit99_local = <<>>]_vars

\* C6: a failed manifest request counts as "no exhibit": nothing is raised,
\* the filing goes on to the download of its primary document without an
\* exhibit, and the rows of the filer are untouched.
C6_ManifestFailureMeansNoExhibit ==
    [][(pc = "list" /\ RequestFailed(net'))
          => /\ exc' = "none"
             /\ pc' = "dl_main"
             /\ exhibit_name' = <<>>
             /\ out_rows' = out_rows
             /\ fi' = fi
             /\ i' = i]_vars

\* Positions of a manifest that pass a test, and the smallest of a set of
\* positions.
Hits(files, Test(_)) == {k \in 1..Len(files) : Test(files[k])}

FirstOf(ks) == CHOOSE k \in ks : \A m \in ks : k <= m

\* C7 as stated: a name match anywhere in the manifest is preferred over a
\* type+name match, which is used only when no name matches.
C7_NameMatchesTakePriority ==
    pc = "dl_main"
        => LET files == Manifest(accession)
               byName == Hits(files, NameMatch)
               byDesc == Hits(files, DescMatch)
           IN  exhibit_name =
                   IF byName # {} THEN files[FirstOf(byName)].name
                   ELSE IF byDesc # {} THEN files[FirstOf(byDesc)].name
                   ELSE <<>>

\* C7 amended: the exhibit is the first entry in listing order that passes
\* the name test or the type+name test; none when no entry passes either.
C7_FirstMatchOfEitherTest ==
    pc = "dl_main"
        => LET files == Manifest(accession)
               either == Hits(files, NameMatch) \cup Hits(files, DescMatch)
           IN  exhibit_name =
                   IF either # {} THEN files[FirstOf(either)].name ELSE <<>>

C7_Witness ==
    /\ pc = "dl_main"
    /\ Hits(Manifest(accession), NameMatch) # {}
    /\ Hits(Manifest(accession), DescMatch) # {}
    /\ FirstOf(Hits(Manifest(accession), DescMatch))
           < FirstOf(Hits(Manifest(accession), NameMatch))
    /\ exhibit_name = <<"p", "r", "e", "s", "s", ".", "h", "t", "m">>

\* C8: no row is collected, and no manifest or download step is entered, for
\* a filing whose key cik:accession is in the skip set.
C8_SkipSetNeverSelected ==
    /\ \A k \in 1..Len(out_rows) :
           DupeKey(out_rows[k].cik, out_rows[k].accession) \notin skip_dupes
    /\ \A k \in 1..Len(all_rows) :
           DupeKey(all_rows[k].cik, all_rows[k].accession) \notin skip_dupes
    /\ (pc \in {"list", "dl_main", "dl_exhibit"})
           => DupeKey(cik, accession) \notin skip_dupes

C8_Witness ==
    /\ pc = "select"
    /\ out_rows = <<>>
    /\ ~dlAttempted
    /\ \E k \in 1..(i - 1) :
           /\ Selection(recent, k, {}) = "take"
           /\ DupeKey(cik, recent.accessionNumber[k]) \in skip_dupes

\* The calendar date of an ISO date string as the number yyyymmdd.
RECURSIVE DecimalValue(_)
DecimalValue(s) ==
    IF s = <<>> THEN 0
    ELSE 10 * DecimalValue(SubSeq(s, 1, Len(s) - 1)) + (Ord(s[Len(s)]) - Ord("0"))

DateNum(s) == DecimalValue(RemoveChar(s, "-"))

\* C9: a filing whose form is not "8-K", or whose date is before start or
\* after end, is passed over without a request and without a row; a filing
\* dated exactly start or exactly end is taken when its form, its items and
\* the skip set allow it.
C9_FormAndInclusiveWindow ==
    [][(pc = "select" /\ i <= Len(recent.form))
          => /\ (\/ recent.form[i] # "8-K"
                 \/ /\ i <= Len(recent.filingDate)
                    /\ \/ DateNum(recent.filingDate[i]) < DateNum(StartDate)
                       \/ DateNum(recent.filingDate[i]) > DateNum(EndDate))
                 => /\ pc' = "select"
                    /\ i' = i + 1
                    /\ fi' = fi
                    /\ out_rows' = out_rows
                    /\ net' = "none"
             /\ (/\ recent.form[i] = "8-K"
                 /\ i <= Len(recent.filingDate)
                 /\ DateNum(recent.filingDate[i]) \in {DateNum(StartDate), DateNum(EndDate)}
                 /\ _find_item_202(ParseItems(ItemsAt(recent.items, i)))
                 /\ i <= Len(recent.accessionNumber)
                 /\ DupeKey(cik, recent.accessionNumber[i]) \notin skip_dupes
                 /\ i <= Len(recent.primaryDocument))
                 => pc' = "list"]_vars

C9_Witness ==
    /\ pc = "list"
    /\ i = 5
    /\ recent.filingDate[i] = EndDate
    /\ Len(out_rows) = 1
    /\ out_rows[1].filing_date = StartDate

\* The path a download step is about to be called with.
DownloadTarget ==
    IF pc = "dl_main" THEN main_local
    ELSE ExhibitLocal(cik, accession, exhibit_name)

\* C10: a download called on a path that exists with a size above zero
\* issues no request and leaves the artifact tree, the file included, as it
\* was, whatever the endpoint would answer.
C10_PresentFileIsNotFetched ==
    [][(/\ pc \in {"dl_main", "dl_exhibit"}
        /\ DownloadTarget \in DOMAIN disk
        /\ Len(disk[DownloadTarget]) > 0)
          => /\ net' = "none"
             /\ disk' = disk]_vars

C10_Witness ==
    /\ pc = "dl_exhibit"
    /\ net = "none"
    /\ dlAttempted
    /\ main_local \in DOMAIN disk
    /\ disk[main_local] = <<"v", "1">>


\* C11: with no index file to start from, merging the collected rows and
\* then merging the same rows again into the file the first merge wrote
\* gives the row count of the first merge.
C11_MergeTwiceSameCount ==
    (pc = "merge" /\ ~csv.exists)
        => LET once == MergedIndex(NoFile, all_rows)
               twice == MergedIndex(once, all_rows)
           IN  Len(twice.rows) = Len(once.rows)

\* C12: a request is only issued when a delay has passed since the request
\* before it.
C12_DelayBetweenRequests ==
    [][(net' # "none") => ~unslept]_vars

\* C16: when the index file holds no row or does not exist and the run
\* collected no row, the merge writes nothing, leaves the file (or its
\* absence) as it is and reports "no results" without an error.
C16_EmptyMergeWritesNothing ==
    [][(pc = "merge" /\ all_rows = <<>> /\ (csv.exists => csv.rows = <<>>))
          => /\ csv' = csv
             /\ csvWrites' = csvWrites
             /\ report' = "no_results"
             /\ exc' = "none"
             /\ pc' = "done"]_vars

C16_Witness ==
    /\ pc = "done"
    /\ report = "no_results"
    /\ ~csv.exists
    /\ csvWrites = 0
    /\ fi = Len(window) + 1

\* C18 as stated: the index file is read only at the start of a run, before
\* the first filer, and written only by the merge at its end.
C18_ReadAtStartWrittenAtEnd ==
    [][/\ (csvReads' > csvReads) => pc = "resume"
       /\ (csv' # csv \/ csvWrites' > csvWrites) => pc = "merge"]_vars

\* C18 amended: the index file is neither read nor written while filers are
\* processed; it is written at most once, by the merge after the last filer;
\* it is read by that merge when it exists and, when --resume_from names it,
\* also at the start of the run: at most twice.
C18_IndexFileAccess ==
    [][/\ (csvReads' > csvReads) => pc \in {"resume", "merge"}
       /\ (csv' # csv \/ csvWrites' > csvWrites)
              => (pc = "merge" /\ fi = Len(window) + 1)
       /\ InFilerLoop => (csv' = csv /\ csvReads' = csvReads /\ csvWrites' = csvWrites)
       /\ csvReads' <= 2
       /\ csvWrites' <= 1]_vars

C18_Witness ==
    /\ pc = "done"
    /\ resume
    /\ csvReads = 2
    /\ csvWrites = 1

\* The rows the run holds: those of the filer being crawled and the aggregate.
HeldRows == out_rows \o all_rows

\* C19 as stated: the primary document of every row the run holds is on disk
\* with a size above zero.
C19_PrimaryFileNonEmpty ==
    \A k \in 1..Len(HeldRows) :
        /\ HeldRows[k].main_local \in DOMAIN disk
        /\ Len(disk[HeldRows[k].main_local]) > 0

\* C19 amended: the primary document of every row the run holds is on disk,
\* from the moment the row is recorded to the merge.
C19_PrimaryFileExists ==
    \A k \in 1..Len(HeldRows) : HeldRows[k].main_local \in DOMAIN disk

C19_Witness ==
    /\ pc = "merge"
    /\ all_rows # <<>>
    /\ all_rows[1].main_local \in DOMAIN disk
    /\ disk[all_rows[1].main_local] = <<>>

\* C20: a download whose request fails leaves the artifact tree as it was,
\* with no file of a size above zero at the target; and a download called
\* on a target that is not there with a size above zero issues the request.
C20_FailedDownloadLeavesNoFile ==
    [][(pc \in {"dl_main", "dl_exhibit"})
          => /\ RequestFailed(net')
                 => /\ disk' = disk
                    /\ ~(/\ DownloadTarget \in DOMAIN disk'
                         /\ Len(disk'[DownloadTarget]) > 0)
             /\ (/\ DownloadTarget # <<>>
                 /\ ~(/\ DownloadTarget \in DOMAIN disk
                      /\ Len(disk[DownloadTarget]) > 0))
                 => net' # "none"]_vars

C20_Witness ==
    /\ pc = "select"
    /\ RequestFailed(net)
    /\ out_rows # <<>>
    /\ out_rows[Len(out_rows)].exhibit99_local # <<>>
    /\ out_rows[Len(out_rows)].exhibit99_local \notin DOMAIN disk


\* C13 as stated: every filer ID of the resolved universe is a string of
\* exactly 10 decimal digits.
C13_ExactlyTenDigits ==
    upc = "resolved"
        => \A k \in 1..Len(df) : AllDigits(df[k].CIK) /\ Len(df[k].CIK) = 10

\* C13 amended: every filer ID of the resolved universe is a string of at
\* least 10 decimal digits, of exactly 10 when no string handed to the
\* normalizer holds more than 10 digits.
C13_AtLeastTenDigits ==
    upc = "resolved"
        => /\ \A k \in 1..Len(df) : AllDigits(df[k].CIK) /\ Len(df[k].CIK) >= 10
           /\ (\A k \in 1..Len(universe.rows) : Len(DigitsOf(CikStrings(universe)[k])) <= 10)
                  => \A k \in 1..Len(df) : Len(df[k].CIK) = 10

C13_Witness ==
    /\ upc = "resolved"
    /\ Len(df) = 2
    /\ universe.rows[1].cik = <<"c", "i", "k", "-", "1", "2", "3", "4", "5">>
    /\ df[1].CIK = <<"0", "0", "0", "0", "0", "1", "2", "3", "4", "5">>
    /\ Len(df[2].CIK) = 11

\* C14: the mapping is requested only by the resolution step, not at all
\* when every row of the loaded universe has its filer ID, and once at most;
\* a row that has its filer ID comes out of the resolution as it went in.
C14_LookupOnlyWhenNeeded ==
    [][/\ (lookups' # lookups) => (upc = "ensure" /\ lookups' = 1)
       /\ (upc = "ensure" /\ \A k \in 1..Len(df) : df[k].CIK # <<>>)
              => lookups' = lookups
       /\ (upc = "ensure" /\ upc' = "check")
              => \A k \in 1..Len(df) :
                     df[k].CIK # <<>> => \E m \in 1..Len(df') : df'[m] = df[k]]_vars

C14_Witness ==
    /\ upc = "resolved"
    /\ lookups = 1
    /\ Len(df) = 2
    /\ universe.has_cik
    /\ universe.rows[1].cik # <<>>
    /\ universe.rows[2].cik = <<>>

\* C15: no two entries of the resolved universe carry the same filer ID.
C15_UniqueFilerIds ==
    upc = "resolved"
        => \A j, k \in 1..Len(df) : j < k => df[j].CIK # df[k].CIK


\* The trimmed codes that carry item 2.02 as the claim reads them: the code
\* on its own or next to punctuation, or "item 2.02" in any case.
QualifyingCodes == {<<"2", ".", "0", "2">>, <<"2", ".", "0", "2", ",", "9", ".", "0", "1">>, <<"I", "t", "e", "m", " ", "2", ".", "0", "2", " ", "-", " ", "R", "e", "s", "u", "l", "t", "s">>, <<"I", "T", "E", "M", "2", ".", "0", "2">>,
                    <<"i", "t", "e", "m", " ", " ", "2", ".", "0", "2", "1">>}

\* C17: the item test succeeds exactly when the entry exists and one of its
\* pipe-separated codes, trimmed, carries item 2.02; "2.02,9.01" and
\* "Item 2.02 - Results" succeed, "1.01" fails, and a missing entry fails
\* without an error.
C17_ItemCodeMatching ==
    item_hit \in {"yes", "no"}
        => (item_hit = "yes"
               <=> /\ item_pos <= Len(items_in)
                   /\ LET codes == Split(items_in[item_pos], "|")
                      IN  \E k \in 1..Len(codes) :
                              Strip(codes[k]) \in QualifyingCodes)

C17_Witness ==
    /\ item_hit = "yes"
    /\ item_pos = 1
    /\ items_in = <<<<"1", ".", "0", "1">> \o <<"|">> \o <<"I", "t", "e", "m", " ", "2", ".", "0", "2", " ", "-", " ", "R", "e", "s", "u", "l", "t", "s">>>>

====
